---- MODULE Spec2Model ----
(***************************************************************************)
(* Model of robot_interfaces::RobotBackend (robot_backend.hpp): the        *)
(* control loop that runs on the backend's worker thread, the host calls   *)
(* of the backend's public methods, and the environment the loop talks to  *)
(* (the frontend appending desired actions, the driver latching a fault,   *)
(* the process-wide interrupt flag, the wall clock).                       *)
(*                                                                         *)
(* Every read or write of shared data that another thread can interleave   *)
(* with is one action of the worker; pc names the statement the worker     *)
(* executes next.                                                          *)
(***************************************************************************)
EXTENDS Integers, Sequences, FiniteSets

\* ------------------------------------------------------------------ bounds

\* Number of desired actions the frontend appends in one run.
MaxFrontendActions == 2

\* Largest value set_max_action_repetitions is called with.
MaxRepetitions == 1

\* The value of max_number_of_actions in the runs that have a limit.
ActionLimit == 1

\* max_number_of_actions: 0 (the constructor's default, no limit) or a limit.
ActionLimits == {0, ActionLimit}

\* Action is opaque to the backend: the k-th action the frontend sends is
\* the value k, so that every entry of desired_action tells where it came
\* from.
FrontendAction(k) == k

\* first_action_timeout: infinity (the constructor's default), which the clock
\* never exceeds, or a finite number of seconds, which it exceeds in the end.
Infinity == "infinity"
Finite == "finite"

NO_ERROR == "NO_ERROR"
DRIVER_ERROR == "DRIVER_ERROR"
BACKEND_ERROR == "BACKEND_ERROR"

MSG_FIRST_ACTION == "First action was not provided in time"
MSG_MAX_ACTIONS == "Maximum number of actions reached."
MSG_NEXT_ACTION == "Next action was not provided in time"
MSG_DRIVER == "overheat"

\* ------------------------------------------------------------------- state

VARIABLES
    real_time_mode,          \* const bool real_time_mode_
    first_action_timeout,    \* const double first_action_timeout_
    max_number_of_actions,   \* const uint32_t max_number_of_actions_
    timeout_elapsed,         \* now - start_time > first_action_timeout_
    max_action_repetitions,  \* uint32_t max_action_repetitions_
    is_shutdown_requested,   \* std::atomic<bool> is_shutdown_requested_
    loop_is_running,         \* std::atomic<bool> loop_is_running_
    received_sigint,         \* SignalHandler::has_received_sigint()
    desired_action,          \* robot_data_->desired_action
    applied_action,          \* robot_data_->applied_action
    observation,             \* robot_data_->observation
    status,                  \* robot_data_->status
    pc,                      \* the worker thread's position in loop()
    t,                       \* loop(): long int t
    loc,                     \* loop(): the locals of the current step
    host_pc,                 \* the host thread's position in the backend's API
    frontend,                \* number of actions the frontend has appended
    driver,                  \* the driver: latched error, calls made so far
    hist                     \* history (not program state), for the properties

vars == << real_time_mode, first_action_timeout, max_number_of_actions,
           timeout_elapsed, max_action_repetitions, is_shutdown_requested, loop_is_running,
           received_sigint, desired_action, applied_action, observation,
           status, pc, t, loc, host_pc, frontend, driver,
           hist >>

config == << real_time_mode, first_action_timeout, max_number_of_actions >>
series == << desired_action, applied_action, observation, status >>

\* ------------------------------------------------------------ Status value

\* Status(): NO_ERROR, empty message, no repetitions.
DefaultStatus ==
    [error_status |-> NO_ERROR, error_message |-> "", action_repetitions |-> 0]

\* Status::set_error: kind and message are overwritten, the counter is kept.
SetError(s, kind, msg) ==
    [s EXCEPT !.error_status = kind, !.error_message = msg]

\* ------------------------------------------------------------- TimeSeries

\* TimeSeries::newest_timeindex(): index of the newest element; an empty
\* series has none, which compares below every t >= 0.
NewestTimeindex(s) == Len(s) - 1

\* TimeSeries::newest_element()
NewestElement(s) == s[Len(s)]

\* TimeSeries::operator[](t), for an index that exists.
At(s, i) == s[i + 1]

\* TimeSeries::wait_for_timeindex(t, 0.1): true when index t exists.
HasTimeindex(s, i) == Len(s) > i

\* ------------------------------------------------------------------ driver

\* RobotDriver::apply_action: the action actually applied, after the
\* driver's safety clamp; to the backend, some function of the action.
DriverApplyAction(a) == << "applied", a >>

\* RobotDriver::get_latest_observation: the n-th reading of the sensors.
DriverObservation(n) == n

\* ------------------------------------------------------------------ backend

has_shutdown_request == is_shutdown_requested \/ received_sigint

NoLocals == [status |-> DefaultStatus, observation |-> 0,
             action_repetitions |-> 0, repeated |-> 0,
             applied |-> DriverApplyAction(0)]

Init ==
    /\ real_time_mode \in BOOLEAN
    /\ first_action_timeout \in {Finite, Infinity}
    /\ max_number_of_actions \in ActionLimits
    /\ timeout_elapsed = FALSE
    /\ max_action_repetitions = 0
    /\ is_shutdown_requested = FALSE
    /\ loop_is_running = TRUE
    /\ received_sigint = FALSE
    /\ desired_action = << >>
    /\ applied_action = << >>
    /\ observation = << >>
    /\ status = << >>
    /\ pc = "wait_first_action"
    /\ t = 0
    /\ loc = NoLocals
    /\ host_pc = "idle"
    /\ frontend = 0
    /\ driver = [error |-> "", last_call |-> "none", observations |-> 0,
                 shutdowns |-> 0, initialized |-> FALSE]
    /\ hist = [inserted_by |-> << >>, max_repetitions |-> 0,
               late_steps |-> {}, steps |-> 0, early_request |-> ""]

\* ---------------------------------------------------- loop(): first action

\* The positions of the worker in the first-action wait.
FirstActionWait == {"wait_first_action", "first_timeout_check"}

\* Faulty variant of WaitFirstAction: the for loop is entered without action
\* 0 and without a request.
WaitFirstAction_NoWait ==
    /\ pc = "wait_first_action"
    /\ pc' = "for_cond"
    /\ UNCHANGED << config, timeout_elapsed, max_action_repetitions,
                    is_shutdown_requested, loop_is_running, received_sigint,
                    series, t, loc, host_pc, frontend, driver, hist >>

\* while (!has_shutdown_request() && !wait_for_timeindex(0, 0.1)): one
\* evaluation of the loop condition.  With a request, or with action 0 there
\* by the end of the 0.1 s wait, the while loop is left; else its body runs.
WaitFirstAction ==
    /\ pc = "wait_first_action"
    /\ pc' = IF has_shutdown_request \/ HasTimeindex(desired_action, 0)
             THEN "for_cond"
             ELSE "first_timeout_check"
    /\ UNCHANGED << config, timeout_elapsed, max_action_repetitions,
                    is_shutdown_requested, loop_is_running, received_sigint,
                    series, t, loc, host_pc, frontend, driver, hist >>

\* const double now = ...; if (now - start_time > first_action_timeout_)
\* { ... } and, when the timeout is not exceeded, back to the loop condition.
FirstTimeoutCheck ==
    /\ pc = "first_timeout_check"
    /\ pc' = IF timeout_elapsed
             THEN "first_timeout_status"
             ELSE "wait_first_action"
    /\ UNCHANGED << config, timeout_elapsed, max_action_repetitions,
                    is_shutdown_requested, loop_is_running, received_sigint,
                    series, t, loc, host_pc, frontend, driver, hist >>

\* Status status; status.set_error(BACKEND_ERROR, "First action ...");
\* robot_data_->status->append(status);
FirstTimeoutStatus ==
    /\ pc = "first_timeout_status"
    /\ status' = Append(status, SetError(DefaultStatus, BACKEND_ERROR,
                                         MSG_FIRST_ACTION))
    /\ pc' = "first_timeout_request"
    /\ UNCHANGED << config, timeout_elapsed, max_action_repetitions,
                    is_shutdown_requested, loop_is_running, received_sigint,
                    desired_action, applied_action, observation, t, loc,
                    host_pc, frontend, driver, hist >>

\* Faulty variant of FirstTimeoutRequest: break without request_shutdown().
FirstTimeoutRequest_NoRequest ==
    /\ pc = "first_timeout_request"
    /\ is_shutdown_requested' = is_shutdown_requested
    /\ pc' = "for_cond"
    /\ UNCHANGED << config, timeout_elapsed, max_action_repetitions,
                    loop_is_running, received_sigint, series, t, loc,
                    host_pc, frontend, driver, hist >>

\* request_shutdown(); break;
FirstTimeoutRequest ==
    /\ pc = "first_timeout_request"
    /\ is_shutdown_requested' = TRUE
    /\ pc' = "for_cond"
    /\ UNCHANGED << config, timeout_elapsed, max_action_repetitions,
                    loop_is_running, received_sigint, series, t, loc, host_pc,
                    frontend, driver, hist >>

\* ------------------------------------------------------ loop(): one step

\* Faulty variant of ForCond: max_number_of_actions_ is not looked at.
ForCond_NoLimit ==
    /\ pc = "for_cond"
    /\ IF has_shutdown_request
       THEN /\ pc' = "driver_shutdown"
            /\ UNCHANGED << loc, frontend, hist >>
       ELSE /\ pc' = "get_observation"
            /\ loc' = [NoLocals EXCEPT !.status =
                         IF FALSE
                         THEN SetError(DefaultStatus, BACKEND_ERROR,
                                       MSG_MAX_ACTIONS)
                         ELSE DefaultStatus]
            /\ hist' = [hist EXCEPT !.steps = @ + 1]
    /\ UNCHANGED << config, timeout_elapsed, max_action_repetitions,
                    is_shutdown_requested, loop_is_running, received_sigint,
                    series, t, host_pc, frontend, driver >>

\* Faulty variant of ForCond: t > max_number_of_actions_ instead of >=.
ForCond_OffByOne ==
    /\ pc = "for_cond"
    /\ IF has_shutdown_request
       THEN /\ pc' = "driver_shutdown"
            /\ UNCHANGED << loc, frontend, hist >>
       ELSE /\ pc' = "get_observation"
            /\ loc' = [NoLocals EXCEPT !.status =
                         IF max_number_of_actions > 0
                            /\ t > max_number_of_actions
                         THEN SetError(DefaultStatus, BACKEND_ERROR,
                                       MSG_MAX_ACTIONS)
                         ELSE DefaultStatus]
            /\ hist' = [hist EXCEPT !.steps = @ + 1]
    /\ UNCHANGED << config, timeout_elapsed, max_action_repetitions,
                    is_shutdown_requested, loop_is_running, received_sigint,
                    series, t, host_pc, frontend, driver >>

\* for (...; !has_shutdown_request(); ...) { Status status; if
\* (max_number_of_actions_ > 0 && t >= max_number_of_actions_)
\* status.set_error(BACKEND_ERROR, "Maximum number of actions reached."); }
ForCond ==
    /\ pc = "for_cond"
    /\ IF has_shutdown_request
       THEN /\ pc' = "driver_shutdown"
            /\ UNCHANGED << loc, frontend, hist >>
       ELSE /\ pc' = "get_observation"
            /\ loc' = [NoLocals EXCEPT !.status =
                         IF max_number_of_actions > 0
                            /\ t >= max_number_of_actions
                         THEN SetError(DefaultStatus, BACKEND_ERROR,
                                       MSG_MAX_ACTIONS)
                         ELSE DefaultStatus]
            /\ hist' = [hist EXCEPT !.steps = @ + 1]
    /\ UNCHANGED << config, timeout_elapsed, max_action_repetitions,
                    is_shutdown_requested, loop_is_running, received_sigint,
                    series, t, host_pc, frontend, driver >>

\* Observation observation = robot_driver_->get_latest_observation();
GetObservation ==
    /\ pc = "get_observation"
    /\ driver' = [driver EXCEPT !.observations = @ + 1,
                                !.last_call = "get_latest_observation"]
    /\ loc' = [loc EXCEPT !.observation =
                 DriverObservation(driver.observations + 1)]
    /\ pc' = "append_observation"
    /\ UNCHANGED << config, timeout_elapsed, max_action_repetitions,
                    is_shutdown_requested, loop_is_running, received_sigint,
                    series, t, host_pc, frontend, hist >>

\* Faulty variant of AppendObservation: the observation is not appended.
AppendObservation_Dropped ==
    /\ pc = "append_observation"
    /\ observation' = observation
    /\ pc' = "check_late"
    /\ UNCHANGED << config, timeout_elapsed, max_action_repetitions,
                    is_shutdown_requested, loop_is_running, received_sigint,
                    desired_action, applied_action, status, t, loc, host_pc,
                    frontend, driver, hist >>

\* robot_data_->observation->append(observation);
AppendObservation ==
    /\ pc = "append_observation"
    /\ observation' = Append(observation, loc.observation)
    /\ pc' = "check_late"
    /\ UNCHANGED << config, timeout_elapsed, max_action_repetitions,
                    is_shutdown_requested, loop_is_running, received_sigint,
                    desired_action, applied_action, status, t, loc, host_pc,
                    frontend, driver, hist >>

\* Faulty variant of CheckLate: real_time_mode_ is not looked at.
CheckLate_IgnoresMode ==
    /\ pc = "check_late"
    /\ IF NewestTimeindex(desired_action) < t
       THEN /\ pc' = "read_repetitions"
            /\ hist' = [hist EXCEPT !.late_steps = @ \cup {t}]
       ELSE /\ pc' = "get_error"
            /\ UNCHANGED hist
    /\ UNCHANGED << config, timeout_elapsed, max_action_repetitions,
                    is_shutdown_requested, loop_is_running, received_sigint,
                    series, t, loc, host_pc, frontend, driver >>

\* if (real_time_mode_ && robot_data_->desired_action->newest_timeindex() < t)
CheckLate ==
    /\ pc = "check_late"
    /\ IF real_time_mode /\ NewestTimeindex(desired_action) < t
       THEN /\ pc' = "read_repetitions"
            /\ hist' = [hist EXCEPT !.late_steps = @ \cup {t}]
       ELSE /\ pc' = "get_error"
            /\ UNCHANGED hist
    /\ UNCHANGED << config, timeout_elapsed, max_action_repetitions,
                    is_shutdown_requested, loop_is_running, received_sigint,
                    series, t, loc, host_pc, frontend, driver >>

\* Faulty variant of ReadRepetitions: a late action is an error whatever
\* max_action_repetitions_ allows.
ReadRepetitions_AlwaysError ==
    /\ pc = "read_repetitions"
    /\ IF Len(status) = 0
       THEN /\ pc' = "empty_series_failure"
            /\ UNCHANGED loc
       ELSE /\ loc' = [loc EXCEPT !.status =
                         SetError(@, BACKEND_ERROR, MSG_NEXT_ACTION)]
            /\ pc' = "get_error"
    /\ UNCHANGED << config, timeout_elapsed, max_action_repetitions,
                    is_shutdown_requested, loop_is_running, received_sigint,
                    series, t, host_pc, frontend, driver, hist >>

\* uint32_t action_repetitions = status->newest_element().action_repetitions;
\* if (action_repetitions < max_action_repetitions_) ... else
\* status.set_error(BACKEND_ERROR, "Next action was not provided in time");
\* newest_element() of an empty series fails: the worker stops there.
ReadRepetitions ==
    /\ pc = "read_repetitions"
    /\ IF Len(status) = 0
       THEN /\ pc' = "empty_series_failure"
            /\ UNCHANGED loc
       ELSE LET r == NewestElement(status).action_repetitions
            IN  IF r < max_action_repetitions
                THEN /\ loc' = [loc EXCEPT !.action_repetitions = r]
                     /\ pc' = "read_newest_action"
                ELSE /\ loc' = [loc EXCEPT !.status =
                                  SetError(@, BACKEND_ERROR, MSG_NEXT_ACTION)]
                     /\ pc' = "get_error"
    /\ UNCHANGED << config, timeout_elapsed, max_action_repetitions,
                    is_shutdown_requested, loop_is_running, received_sigint,
                    series, t, host_pc, frontend, driver, hist >>

\* robot_data_->desired_action->newest_element()   (the append's argument)
\* newest_element() of an empty series fails: the worker stops there.
ReadNewestAction ==
    /\ pc = "read_newest_action"
    /\ IF Len(desired_action) = 0
       THEN /\ pc' = "empty_series_failure"
            /\ UNCHANGED loc
       ELSE /\ loc' = [loc EXCEPT !.repeated = NewestElement(desired_action)]
            /\ pc' = "append_repetition"
    /\ UNCHANGED << config, timeout_elapsed, max_action_repetitions,
                    is_shutdown_requested, loop_is_running, received_sigint,
                    series, t, host_pc, frontend, driver, hist >>

\* Faulty variant of AppendRepetition: the repetition is not counted in the
\* step's status.
AppendRepetition_NoCount ==
    /\ pc = "append_repetition"
    /\ desired_action' = Append(desired_action, loc.repeated)
    /\ hist' = [hist EXCEPT !.inserted_by = Append(@, "backend")]
    /\ loc' = loc
    /\ pc' = "get_error"
    /\ UNCHANGED << config, timeout_elapsed, max_action_repetitions,
                    is_shutdown_requested, loop_is_running, received_sigint,
                    applied_action, observation, status, t, host_pc,
                    frontend, driver >>

\* robot_data_->desired_action->append(...);
\* status.action_repetitions = action_repetitions + 1;
AppendRepetition ==
    /\ pc = "append_repetition"
    /\ desired_action' = Append(desired_action, loc.repeated)
    /\ hist' = [hist EXCEPT !.inserted_by = Append(@, "backend")]
    /\ loc' = [loc EXCEPT !.status.action_repetitions =
                 loc.action_repetitions + 1]
    /\ pc' = "get_error"
    /\ UNCHANGED << config, timeout_elapsed, max_action_repetitions,
                    is_shutdown_requested, loop_is_running, received_sigint,
                    applied_action, observation, status, t, host_pc, frontend,
                    driver >>

\* Faulty variant of GetError: the driver's error message is dropped.
GetError_Ignored ==
    /\ pc = "get_error"
    /\ driver' = [driver EXCEPT !.last_call = "get_error"]
    /\ loc' = loc
    /\ pc' = "append_status"
    /\ UNCHANGED << config, timeout_elapsed, max_action_repetitions,
                    is_shutdown_requested, loop_is_running, received_sigint,
                    series, t, host_pc, frontend, hist >>

\* Faulty variant of GetError: the driver's error does not replace an error
\* the step has set already.
GetError_KeepsBackendError ==
    /\ pc = "get_error"
    /\ driver' = [driver EXCEPT !.last_call = "get_error"]
    /\ loc' = IF driver.error # "" /\ loc.status.error_status = NO_ERROR
              THEN [loc EXCEPT !.status =
                      SetError(@, DRIVER_ERROR, driver.error)]
              ELSE loc
    /\ pc' = "append_status"
    /\ UNCHANGED << config, timeout_elapsed, max_action_repetitions,
                    is_shutdown_requested, loop_is_running, received_sigint,
                    series, t, host_pc, frontend, hist >>

\* std::string driver_error_msg = robot_driver_->get_error();
\* if (!driver_error_msg.empty()) status.set_error(DRIVER_ERROR, msg);
GetError ==
    /\ pc = "get_error"
    /\ driver' = [driver EXCEPT !.last_call = "get_error"]
    /\ loc' = IF driver.error # ""
              THEN [loc EXCEPT !.status =
                      SetError(@, DRIVER_ERROR, driver.error)]
              ELSE loc
    /\ pc' = "append_status"
    /\ UNCHANGED << config, timeout_elapsed, max_action_repetitions,
                    is_shutdown_requested, loop_is_running, received_sigint,
                    series, t, host_pc, frontend, hist >>

\* Faulty variant of AppendStatus: the error branch shuts the driver down
\* itself before it breaks.
AppendStatus_ShutsDown ==
    /\ pc = "append_status"
    /\ status' = Append(status, loc.status)
    /\ pc' = IF loc.status.error_status # NO_ERROR
             THEN "driver_shutdown"
             ELSE "wait_action"
    /\ UNCHANGED << config, timeout_elapsed, max_action_repetitions,
                    is_shutdown_requested, loop_is_running, received_sigint,
                    desired_action, applied_action, observation, t, loc,
                    host_pc, frontend, hist >>
    /\ driver' = IF loc.status.error_status # NO_ERROR
                 THEN [driver EXCEPT !.shutdowns = @ + 1,
                                     !.last_call = "shutdown"]
                 ELSE driver

\* Faulty variant of AppendStatus: no break after an error status.
AppendStatus_NoBreak ==
    /\ pc = "append_status"
    /\ status' = Append(status, loc.status)
    /\ pc' = "wait_action"
    /\ UNCHANGED << config, timeout_elapsed, max_action_repetitions,
                    is_shutdown_requested, loop_is_running, received_sigint,
                    desired_action, applied_action, observation, t, loc,
                    host_pc, frontend, driver, hist >>

\* robot_data_->status->append(status);
\* if (status.error_status != NO_ERROR) break;
AppendStatus ==
    /\ pc = "append_status"
    /\ status' = Append(status, loc.status)
    /\ pc' = IF loc.status.error_status # NO_ERROR
             THEN "driver_shutdown"
             ELSE "wait_action"
    /\ UNCHANGED << config, timeout_elapsed, max_action_repetitions,
                    is_shutdown_requested, loop_is_running, received_sigint,
                    desired_action, applied_action, observation, t, loc,
                    host_pc, frontend, driver, hist >>

\* Faulty variant of WaitAction: the wait does not look at the shutdown
\* request.
WaitAction_IgnoresShutdown ==
    /\ pc = "wait_action"
    /\ HasTimeindex(desired_action, t)
    /\ pc' = "check_shutdown"
    /\ UNCHANGED << config, timeout_elapsed, max_action_repetitions,
                    is_shutdown_requested, loop_is_running, received_sigint,
                    series, t, loc, host_pc, frontend, driver, hist >>

\* while (!has_shutdown_request() && !wait_for_timeindex(t, 0.1)) {}
\* An iteration that finds neither a request nor the action leaves the state
\* as it is.
WaitAction ==
    /\ pc = "wait_action"
    /\ has_shutdown_request \/ HasTimeindex(desired_action, t)
    /\ pc' = "check_shutdown"
    /\ UNCHANGED << config, timeout_elapsed, max_action_repetitions,
                    is_shutdown_requested, loop_is_running, received_sigint,
                    series, t, loc, host_pc, frontend, driver, hist >>

\* Faulty variant of CheckShutdown: no test of the request after the wait;
\* the action is applied if it is there.
CheckShutdown_AppliesIfThere ==
    /\ pc = "check_shutdown"
    /\ pc' = IF HasTimeindex(desired_action, t)
             THEN "apply_action"
             ELSE "driver_shutdown"
    /\ UNCHANGED << config, timeout_elapsed, max_action_repetitions,
                    is_shutdown_requested, loop_is_running, received_sigint,
                    series, t, loc, host_pc, frontend, driver, hist >>

\* if (has_shutdown_request()) break;
CheckShutdown ==
    /\ pc = "check_shutdown"
    /\ pc' = IF has_shutdown_request THEN "driver_shutdown" ELSE "apply_action"
    /\ UNCHANGED << config, timeout_elapsed, max_action_repetitions,
                    is_shutdown_requested, loop_is_running, received_sigint,
                    series, t, loc, host_pc, frontend, driver, hist >>

\* Faulty variant of ApplyAction: the newest desired action is applied
\* instead of the one of step t.
ApplyAction_Newest ==
    /\ pc = "apply_action"
    /\ loc' = [loc EXCEPT !.applied =
                 DriverApplyAction(NewestElement(desired_action))]
    /\ driver' = [driver EXCEPT !.last_call = "apply_action"]
    /\ pc' = "append_applied"
    /\ UNCHANGED << config, timeout_elapsed, max_action_repetitions,
                    is_shutdown_requested, loop_is_running, received_sigint,
                    series, t, host_pc, frontend, hist >>

\* Action desired_action = (*robot_data_->desired_action)[t];
\* Action applied_action = robot_driver_->apply_action(desired_action);
ApplyAction ==
    /\ pc = "apply_action"
    /\ loc' = [loc EXCEPT !.applied =
                 DriverApplyAction(At(desired_action, t))]
    /\ driver' = [driver EXCEPT !.last_call = "apply_action"]
    /\ pc' = "append_applied"
    /\ UNCHANGED << config, timeout_elapsed, max_action_repetitions,
                    is_shutdown_requested, loop_is_running, received_sigint,
                    series, t, host_pc, frontend, hist >>

\* Faulty variant of AppendApplied: the step ends without appending the
\* applied action.
AppendApplied_NoAppend ==
    /\ pc = "append_applied"
    /\ applied_action' = applied_action
    /\ t' = t + 1
    /\ loc' = NoLocals
    /\ pc' = "for_cond"
    /\ UNCHANGED << config, timeout_elapsed, max_action_repetitions,
                    is_shutdown_requested, loop_is_running, received_sigint,
                    desired_action, observation, status, host_pc, frontend,
                    driver, hist >>

\* robot_data_->applied_action->append(applied_action);  and the for's t++
AppendApplied ==
    /\ pc = "append_applied"
    /\ applied_action' = Append(applied_action, loc.applied)
    /\ t' = t + 1
    /\ loc' = NoLocals
    /\ pc' = "for_cond"
    /\ UNCHANGED << config, timeout_elapsed, max_action_repetitions,
                    is_shutdown_requested, loop_is_running, received_sigint,
                    desired_action, observation, status, host_pc, frontend,
                    driver, hist >>

\* ---------------------------------------------------- loop(): after the for

\* robot_driver_->shutdown();
DriverShutdown ==
    /\ pc = "driver_shutdown"
    /\ driver' = [driver EXCEPT !.shutdowns = @ + 1, !.last_call = "shutdown"]
    /\ pc' = "set_not_running"
    /\ UNCHANGED << config, timeout_elapsed, max_action_repetitions,
                    is_shutdown_requested, loop_is_running, received_sigint,
                    series, t, loc, host_pc, frontend, hist >>

\* loop_is_running_ = false;
SetNotRunning ==
    /\ pc = "set_not_running"
    /\ loop_is_running' = FALSE
    /\ pc' = "done"
    /\ UNCHANGED << config, timeout_elapsed, max_action_repetitions,
                    is_shutdown_requested, received_sigint, series, t, loc,
                    host_pc, frontend, driver, hist >>

\* The worker thread: every statement of loop().
Worker ==
    \/ WaitFirstAction
    \/ FirstTimeoutCheck
    \/ FirstTimeoutStatus
    \/ FirstTimeoutRequest
    \/ ForCond
    \/ GetObservation
    \/ AppendObservation
    \/ CheckLate
    \/ ReadRepetitions
    \/ ReadNewestAction
    \/ AppendRepetition
    \/ GetError
    \/ AppendStatus
    \/ WaitAction
    \/ CheckShutdown
    \/ ApplyAction
    \/ AppendApplied
    \/ DriverShutdown
    \/ SetNotRunning

\* ------------------------------------------------------------- environment

\* Frontend: append_desired_action(a) appends to robot_data_->desired_action.
\* Any thread may call it at any time, also after the loop has ended.
FrontendAppend ==
    /\ frontend < MaxFrontendActions
    /\ desired_action' = Append(desired_action, FrontendAction(frontend + 1))
    /\ frontend' = frontend + 1
    /\ hist' = [hist EXCEPT !.inserted_by = Append(@, "frontend")]
    /\ UNCHANGED << config, timeout_elapsed, max_action_repetitions,
                    is_shutdown_requested, loop_is_running, received_sigint,
                    applied_action, observation, status, pc, t, loc, host_pc,
                    driver >>

\* The driver latches a fault: get_error() is non-empty from now on, until
\* the driver is shut down.
DriverFault ==
    /\ driver.error = ""
    /\ driver.shutdowns = 0
    /\ driver' = [driver EXCEPT !.error = MSG_DRIVER]
    /\ UNCHANGED << config, timeout_elapsed, max_action_repetitions,
                    is_shutdown_requested, loop_is_running, received_sigint,
                    series, pc, t, loc, host_pc, frontend, hist >>

\* The wall clock passes start_time + first_action_timeout_.  Only the test
\* at line 242 reads the clock, after a 0.1 s wait that ended without action
\* 0: the clock is followed there and nowhere else, the moment it passes the
\* timeout lying anywhere between the loop condition's read of the request
\* flag and the test.
TimeoutElapses ==
    /\ first_action_timeout = Finite
    /\ ~timeout_elapsed
    /\ pc = "first_timeout_check"
    /\ timeout_elapsed' = TRUE
    /\ UNCHANGED << config, max_action_repetitions, is_shutdown_requested,
                    loop_is_running, received_sigint, series, pc, t, loc,
                    host_pc, frontend, driver, hist >>

\* History of a shutdown request: where the worker was in the first-action
\* wait if the request came before the timeout had elapsed.
RecordRequest ==
    [hist EXCEPT !.early_request =
        IF @ = "" /\ ~has_shutdown_request /\ ~timeout_elapsed
           /\ pc \in FirstActionWait
        THEN pc
        ELSE @]

\* The process receives SIGINT: has_received_sigint() is true from now on.
Sigint ==
    /\ ~received_sigint
    /\ received_sigint' = TRUE
    /\ hist' = RecordRequest
    /\ UNCHANGED << config, timeout_elapsed, max_action_repetitions,
                    is_shutdown_requested, loop_is_running, series, pc, t,
                    loc, host_pc, frontend, driver >>

\* -------------------------------------------------------- host thread (API)

\* set_max_action_repetitions(m)
SetMaxActionRepetitions ==
    /\ host_pc = "idle"
    /\ \E m \in 0..MaxRepetitions :
          /\ m # max_action_repetitions
          /\ max_action_repetitions' = m
          /\ hist' = [hist EXCEPT !.max_repetitions =
                                     IF m > @ THEN m ELSE @]
    /\ UNCHANGED << config, timeout_elapsed, is_shutdown_requested,
                    loop_is_running, received_sigint, series, pc, t, loc,
                    host_pc, frontend, driver >>

\* initialize(): robot_driver_->initialize() begins ...
InitializeCall ==
    /\ host_pc = "idle"
    /\ ~driver.initialized
    /\ host_pc' = "initialize"
    /\ UNCHANGED << config, timeout_elapsed, max_action_repetitions,
                    is_shutdown_requested, loop_is_running, received_sigint,
                    series, pc, t, loc, frontend, driver, hist >>

\* ... and returns.
InitializeReturn ==
    /\ host_pc = "initialize"
    /\ driver' = [driver EXCEPT !.initialized = TRUE]
    /\ host_pc' = "idle"
    /\ UNCHANGED << config, timeout_elapsed, max_action_repetitions,
                    is_shutdown_requested, loop_is_running, received_sigint,
                    series, pc, t, loc, frontend, hist >>

\* request_shutdown()
RequestShutdown ==
    /\ host_pc = "idle"
    /\ ~is_shutdown_requested
    /\ is_shutdown_requested' = TRUE
    /\ hist' = RecordRequest
    /\ UNCHANGED << config, timeout_elapsed, max_action_repetitions,
                    loop_is_running, received_sigint, series, pc, t, loc,
                    host_pc, frontend, driver >>

\* wait_until_terminated() is called ...
WaitUntilTerminatedCall ==
    /\ host_pc = "idle"
    /\ host_pc' = "wait_until_terminated"
    /\ UNCHANGED << config, timeout_elapsed, max_action_repetitions,
                    is_shutdown_requested, loop_is_running, received_sigint,
                    series, pc, t, loc, frontend, driver, hist >>

\* ... and returns: while (loop_is_running_) sleep;
WaitUntilTerminatedReturn ==
    /\ host_pc = "wait_until_terminated"
    /\ ~loop_is_running
    /\ host_pc' = "idle"
    /\ UNCHANGED << config, timeout_elapsed, max_action_repetitions,
                    is_shutdown_requested, loop_is_running, received_sigint,
                    series, pc, t, loc, frontend, driver, hist >>

\* ~RobotBackend(): request_shutdown(); ...
Destructor ==
    /\ host_pc = "idle"
    /\ is_shutdown_requested' = TRUE
    /\ host_pc' = "join"
    /\ hist' = RecordRequest
    /\ UNCHANGED << config, timeout_elapsed, max_action_repetitions,
                    loop_is_running, received_sigint, series, pc, t, loc,
                    frontend, driver >>

\* ... thread_->join(); returns when loop() has returned.
JoinReturn ==
    /\ host_pc = "join"
    /\ pc = "done"
    /\ host_pc' = "destroyed"
    /\ UNCHANGED << config, timeout_elapsed, max_action_repetitions,
                    is_shutdown_requested, loop_is_running, received_sigint,
                    series, pc, t, loc, frontend, driver, hist >>

Host ==
    \/ SetMaxActionRepetitions
    \/ InitializeCall
    \/ InitializeReturn
    \/ RequestShutdown
    \/ WaitUntilTerminatedCall
    \/ WaitUntilTerminatedReturn
    \/ Destructor
    \/ JoinReturn

Environment ==
    \/ FrontendAppend
    \/ DriverFault
    \/ Sigint
    \/ TimeoutElapses

Next == Worker \/ Host \/ Environment

Spec == Init /\ [][Next]_vars

\* The worker thread is scheduled fairly and every driver call returns; a
\* host thread blocked in wait_until_terminated() or join() is scheduled
\* fairly too.
LiveSpec ==
    /\ Spec
    /\ WF_vars(Worker)
    /\ WF_vars(WaitUntilTerminatedReturn)
    /\ WF_vars(JoinReturn)

\* ============================================================== properties

\* The statements after the for loop, and the end of loop().
AfterLoop == {"driver_shutdown", "set_not_running", "done"}

\* Step i of the loop has begun and is over: the loop went on to a later
\* iteration or left the for loop.
StepOver(i) == hist.steps > i /\ (t > i \/ pc \in AfterLoop)

\* Step i ran to the end of the loop body (no break).
StepCompleted(i) == t > i

\* The first-action timeout has appended its status.
FirstActionTimedOut ==
    Len(status) > 0 /\ At(status, 0).error_message = MSG_FIRST_ACTION

\* C1 as stated: for every step i, once status[i] is appended and step i is
\* over, observation[i], desired_action[i] and applied_action[i] exist too.
C1_StepCompleteness ==
    \A i \in 0..(hist.steps - 1) :
        (HasTimeindex(status, i) /\ StepOver(i)) =>
            /\ HasTimeindex(observation, i)
            /\ HasTimeindex(desired_action, i)
            /\ HasTimeindex(applied_action, i)

\* C1 amended: every step that is over has observation[i] and status[i];
\* a step that ran to the end of the loop body has desired_action[i] and
\* applied_action[i] as well, and a step the loop left by break (error
\* status, or shutdown request while waiting for the action) has no
\* applied_action[i].
C1_StepCompletenessAmended ==
    \A i \in 0..(hist.steps - 1) :
        StepOver(i) =>
            /\ HasTimeindex(observation, i)
            /\ HasTimeindex(status, i)
            /\ IF StepCompleted(i)
               THEN /\ HasTimeindex(desired_action, i)
                    /\ HasTimeindex(applied_action, i)
               ELSE ~HasTimeindex(applied_action, i)

\* Steps 0 and 1 ran to their end and step 2 was left by break.
C1_Witness ==
    /\ pc = "done"
    /\ t = 2
    /\ hist.steps = 3
    /\ Len(status) = 3
    /\ Len(applied_action) = 2

\* C2 as stated: in every reachable state, status[i] exists only if
\* observation[i] does, and applied_action[i] only if status[i] does.
C2_VisibilityOrder ==
    /\ \A i \in 0..(Len(status) - 1) : HasTimeindex(observation, i)
    /\ \A i \in 0..(Len(applied_action) - 1) : HasTimeindex(status, i)

\* C2 amended: the order holds in every run in which the first-action
\* timeout has not appended its status; in a run in which it has, that
\* status is status[0], the only entry of the series, and there is no
\* observation and no applied action at all.
C2_VisibilityOrderAmended ==
    IF FirstActionTimedOut
    THEN /\ Len(status) = 1
         /\ Len(observation) = 0
         /\ Len(applied_action) = 0
    ELSE C2_VisibilityOrder

\* In the middle of step 1: observation[1] is there, status[1] is not yet.
C2_Witness ==
    /\ Len(observation) = 2
    /\ Len(status) = 1
    /\ Len(applied_action) = 1
    /\ pc = "get_error"

\* C3: after a shutdown request (request_shutdown(), the destructor, or the
\* interrupt signal), whatever the loop is doing, loop_is_running eventually
\* becomes false; wait_until_terminated() and the destructor's join return.
C3_Termination ==
    /\ has_shutdown_request ~> ~loop_is_running
    /\ (host_pc = "wait_until_terminated" /\ has_shutdown_request)
           ~> (host_pc # "wait_until_terminated")
    /\ (host_pc = "join") ~> (host_pc = "destroyed")

\* The loop was asked to stop while it waited for an action in a step, it
\* has ended, and the destructor's join has returned.
C3_Witness ==
    /\ is_shutdown_requested
    /\ ~loop_is_running
    /\ host_pc = "destroyed"
    /\ Len(status) > Len(applied_action)
    /\ NewestElement(status).error_status = NO_ERROR

\* The entries i..j of desired_action were all inserted by the backend.
BackendRun(i, j) ==
    \A k \in i..j : hist.inserted_by[k] = "backend"

\* C4 as stated: in real-time mode the number of consecutive entries of
\* desired_action inserted by the backend never exceeds
\* max_action_repetitions (the largest value it was ever set to).
C4_RepetitionBound ==
    real_time_mode =>
        ~ \E i \in 1..Len(desired_action) :
              /\ i + hist.max_repetitions <= Len(desired_action)
              /\ BackendRun(i, i + hist.max_repetitions)

\* Index N of the status series exists, N = max_number_of_actions > 0.
LimitStatusExists ==
    max_number_of_actions > 0 /\ HasTimeindex(status, max_number_of_actions)

\* C5 as stated: if max_number_of_actions = N > 0, status[N] has error_kind
\* BACKEND_ERROR.
C5_LimitStatus ==
    LimitStatusExists =>
        At(status, max_number_of_actions).error_status = BACKEND_ERROR

\* C5 amended: status[N] is an error status: BACKEND_ERROR, unless the driver
\* reported an error when polled in step N, and then DRIVER_ERROR with the
\* driver's message.
C5_LimitStatusAmended ==
    LimitStatusExists =>
        LET s == At(status, max_number_of_actions)
        IN  \/ s.error_status = BACKEND_ERROR
            \/ /\ s.error_status = DRIVER_ERROR
               /\ driver.error # ""
               /\ s.error_message = driver.error

\* Step N ended the run with "Maximum number of actions reached."
C5_Witness ==
    /\ LimitStatusExists
    /\ At(status, max_number_of_actions).error_status = BACKEND_ERROR
    /\ At(status, max_number_of_actions).error_message = MSG_MAX_ACTIONS
    /\ pc = "done"

\* C6 as stated: if max_number_of_actions = N > 0, none of the four series
\* ever holds more than N + 1 entries, whatever the frontend does.
C6_LimitLengths ==
    max_number_of_actions > 0 =>
        /\ Len(desired_action) <= max_number_of_actions + 1
        /\ Len(applied_action) <= max_number_of_actions + 1
        /\ Len(observation) <= max_number_of_actions + 1
        /\ Len(status) <= max_number_of_actions + 1

\* C6 amended: observation and status never hold more than N + 1 entries
\* and applied_action never more than N; desired_action is as long as the
\* frontend makes it.
C6_LimitLengthsAmended ==
    max_number_of_actions > 0 =>
        /\ Len(applied_action) <= max_number_of_actions
        /\ Len(observation) <= max_number_of_actions + 1
        /\ Len(status) <= max_number_of_actions + 1

\* The limit ended the run with the three series full, and desired_action
\* longer than N + 1.
C6_Witness ==
    /\ max_number_of_actions > 0
    /\ Len(applied_action) = max_number_of_actions
    /\ Len(observation) = max_number_of_actions + 1
    /\ Len(status) = max_number_of_actions + 1
    /\ Len(desired_action) > max_number_of_actions + 1

\* C7: driver.shutdown() is called never more than once, and exactly once
\* when the loop has ended; the call comes after the loop's last
\* get_latest_observation / get_error / apply_action and before
\* loop_is_running turns false, which never turns true again.
C7_ShutdownOnce ==
    /\ [](driver.shutdowns <= 1)
    /\ [](pc \in {"set_not_running", "done"} => driver.shutdowns = 1)
    /\ [](~loop_is_running => driver.shutdowns = 1)
    /\ [][driver.last_call = "shutdown" => driver'.last_call = "shutdown"]_vars
    /\ [][~loop_is_running => ~loop_is_running']_vars

\* The loop applied an action, ended, shut the driver down once and reported
\* that it no longer runs.
C7_Witness ==
    /\ pc = "done"
    /\ driver.shutdowns = 1
    /\ driver.last_call = "shutdown"
    /\ ~loop_is_running
    /\ Len(applied_action) > 0

\* The status series holds an error status.
HasErrorStatus ==
    \E i \in 1..Len(status) : status[i].error_status # NO_ERROR

\* Number of entries of desired_action the backend inserted.
BackendInsertions ==
    Cardinality({k \in 1..Len(hist.inserted_by) :
                    hist.inserted_by[k] = "backend"})

\* C8: the status series holds at most one error status, and it is the
\* newest entry; once it is appended the backend calls apply_action no more
\* and appends nothing to any of the four series.
C8_FaultEndsLoop ==
    /\ [](\A i \in 1..Len(status) :
             status[i].error_status # NO_ERROR => i = Len(status))
    /\ [](HasErrorStatus => pc \notin {"apply_action", "append_applied"})
    /\ [][HasErrorStatus =>
             /\ status' = status
             /\ observation' = observation
             /\ applied_action' = applied_action
             /\ BackendInsertions' = BackendInsertions]_vars

\* A step after the first ended the run with an error status.
C8_Witness ==
    /\ HasErrorStatus
    /\ Len(status) > 1
    /\ pc = "done"

\* The newest status is the driver's error.
NewestStatusIsDriverError ==
    /\ Len(status) > 0
    /\ NewestElement(status).error_status = DRIVER_ERROR
    /\ NewestElement(status).error_message = driver.error

\* C9 as stated: once driver.get_error() is non-empty, the loop eventually
\* appends a DRIVER_ERROR status, exits, and driver.shutdown() is invoked,
\* in both modes and in every phase of the loop.
C9_DriverFaultFatal ==
    (driver.error # "") ~> (NewestStatusIsDriverError /\ driver.shutdowns = 1)

\* C9 amended: once the loop polls driver.get_error() in a step and the
\* error is non-empty, it appends a DRIVER_ERROR status with the driver's
\* message, exits, and driver.shutdown() is invoked, in both modes.  (A
\* fault latched while the loop waits for an action that does not come, or
\* after the step's poll when the loop then leaves for another reason, is
\* never polled.)
C9_DriverFaultFatalAmended ==
    (pc = "get_error" /\ driver.error # "")
        ~> (NewestStatusIsDriverError /\ pc = "done" /\ driver.shutdowns = 1)

\* In non-real-time mode, a fault polled in a step after the first ended
\* the run.
C9_Witness ==
    /\ ~real_time_mode
    /\ NewestStatusIsDriverError
    /\ Len(status) > 1
    /\ pc = "done"
    /\ driver.shutdowns = 1

\* The happy path with k = frontend actions: real-time mode, no repetitions
\* allowed at any time, no driver error, the frontend appended k actions,
\* the loop applied all k of them, and has ended.
HappyPath ==
    /\ real_time_mode
    /\ hist.max_repetitions = 0
    /\ driver.error = ""
    /\ frontend > 0
    /\ t = frontend
    /\ hist.late_steps \cap 0..(frontend - 1) = {}
    /\ pc = "done"

\* status[0..k-1] are NO_ERROR and applied_action[i] is the driver's result
\* for desired_action[i].
HappyPathValues ==
    \A i \in 0..(frontend - 1) :
        /\ HasTimeindex(status, i)
        /\ At(status, i).error_status = NO_ERROR
        /\ HasTimeindex(applied_action, i)
        /\ HasTimeindex(desired_action, i)
        /\ At(applied_action, i) = DriverApplyAction(At(desired_action, i))

\* C10 as stated: on the happy path status[0..k-1] are NO_ERROR,
\* applied_action[i] is the driver's result for desired_action[i], and each
\* of the four series ends up with exactly k entries.
C10_HappyPath ==
    HappyPath =>
        /\ HappyPathValues
        /\ Len(desired_action) = frontend
        /\ Len(applied_action) = frontend
        /\ Len(observation) = frontend
        /\ Len(status) = frontend

\* C10 amended: on the happy path status[0..k-1] are NO_ERROR,
\* applied_action[i] is the driver's result for desired_action[i], and
\* desired_action and applied_action end up with exactly k entries;
\* observation and status end up with k entries only if a shutdown was
\* requested before the loop began step k, and with k + 1 otherwise,
\* status[k] being a BACKEND_ERROR (no action k in time, or the action
\* limit).
C10_HappyPathAmended ==
    HappyPath =>
        /\ HappyPathValues
        /\ Len(desired_action) = frontend
        /\ Len(applied_action) = frontend
        /\ Len(observation) = Len(status)
        /\ \/ Len(status) = frontend /\ has_shutdown_request
           \/ /\ Len(status) = frontend + 1
              /\ NewestElement(status).error_status = BACKEND_ERROR

\* The happy path with two actions, ended by step 2 finding no action.
C10_Witness ==
    /\ HappyPath
    /\ frontend = 2
    /\ Len(status) = 3
    /\ NewestElement(status).error_message = MSG_NEXT_ACTION

\* What a run that ended in the first-action timeout holds: the timeout's
\* status is the only status, the driver was asked for no observation, no
\* error and no action, nothing was appended to the other three series by
\* the backend, and the loop goes on to driver.shutdown() and to
\* loop_is_running = false without entering a step.
TimedOutRun ==
    /\ Len(status) = 1
    /\ At(status, 0).error_status = BACKEND_ERROR
    /\ Len(observation) = 0
    /\ Len(applied_action) = 0
    /\ BackendInsertions = 0
    /\ driver.observations = 0
    /\ driver.last_call \in {"none", "shutdown"}
    /\ hist.steps = 0
    /\ pc \in {"first_timeout_request", "for_cond"} \cup AfterLoop
    /\ pc \in {"set_not_running", "done"} => driver.shutdowns = 1
    /\ pc = "done" => ~loop_is_running

\* C11 as stated: a first-action timeout appends exactly one status
\* (BACKEND_ERROR "First action was not provided in time"), calls neither
\* get_latest_observation nor apply_action, appends nothing to the other
\* series, then calls driver.shutdown() and sets loop_is_running to false;
\* and if shutdown is requested before the timeout has elapsed, no status at
\* all is appended.
C11_FirstActionTimeout ==
    /\ FirstActionTimedOut => TimedOutRun
    /\ hist.early_request # "" => Len(status) = 0

\* C11 amended: as stated for the timeout itself; a shutdown request made
\* before the timeout has elapsed keeps the status series empty when the
\* loop condition (line 239) is evaluated after the request.  (A request that
\* arrives after that evaluation, during the 0.1 s wait in which the timeout
\* elapses, is followed by the timeout's status.)
C11_FirstActionTimeoutAmended ==
    /\ FirstActionTimedOut => TimedOutRun
    /\ hist.early_request = "wait_first_action" => Len(status) = 0

\* No action was supplied, the timeout elapsed, and the run ended with the
\* timeout's status and the driver shut down.
C11_Witness ==
    /\ FirstActionTimedOut
    /\ Len(desired_action) = 0
    /\ timeout_elapsed
    /\ pc = "done"
    /\ driver.shutdowns = 1
    /\ ~loop_is_running

\* The interrupt flag is up, the loop is in its steps, and the run is free of
\* faults so far: no error status in the series, none set in the step in
\* flight, no driver error.
InterruptedFaultFree ==
    /\ received_sigint
    /\ hist.steps > 0
    /\ ~HasErrorStatus
    /\ loc.status.error_status = NO_ERROR
    /\ driver.error = ""

\* The step in flight found its action late with the repetitions used up.
LateAndExhausted ==
    /\ real_time_mode
    /\ pc = "read_repetitions"
    /\ t \in hist.late_steps
    /\ NewestElement(status).action_repetitions >= max_action_repetitions

\* C12 as stated: when the interrupt flag is raised after fault-free steps
\* (no driver error; a step at the action limit is not entered once the flag
\* is up), no status with an error is appended any more, and the status of
\* the step in flight has error_kind NONE.
C12_InterruptNoError ==
    [][InterruptedFaultFree =>
          /\ ~HasErrorStatus'
          /\ loc'.status.error_status = NO_ERROR]_vars

\* C12 amended: as stated, except that in real-time mode the step in flight
\* still gets BACKEND_ERROR "Next action was not provided in time" when it
\* finds desired_action[t] missing with the repetitions used up.
C12_InterruptNoErrorAmended ==
    [][InterruptedFaultFree =>
          /\ ~HasErrorStatus'
          /\ \/ loc'.status.error_status = NO_ERROR
             \/ /\ LateAndExhausted
                /\ loc'.status =
                      SetError(loc.status, BACKEND_ERROR, MSG_NEXT_ACTION)]_vars

\* The interrupt (no request_shutdown()) ended a run without faults after one
\* applied action; the step in flight appended a NO_ERROR status.
C12_Witness ==
    /\ received_sigint
    /\ ~is_shutdown_requested
    /\ pc = "done"
    /\ ~HasErrorStatus
    /\ Len(applied_action) > 0
    /\ Len(status) > Len(applied_action)

\* C13: in non-real-time mode the backend never appends to desired_action,
\* every status (appended or being built) has action_repetitions = 0, no
\* "Next action was not provided in time" error is emitted, whatever
\* max_action_repetitions is and however late the frontend is; the loop
\* leaves the wait of step t only with desired_action[t] or a shutdown
\* request, and applies an action only when desired_action[t] exists.
C13_NonRealTime ==
    ~real_time_mode =>
        /\ BackendInsertions = 0
        /\ hist.late_steps = {}
        /\ pc \notin {"read_repetitions", "read_newest_action",
                       "append_repetition"}
        /\ loc.status.action_repetitions = 0
        /\ loc.status.error_message # MSG_NEXT_ACTION
        /\ \A i \in 1..Len(status) :
              /\ status[i].action_repetitions = 0
              /\ status[i].error_message # MSG_NEXT_ACTION
        /\ pc = "check_shutdown" =>
              has_shutdown_request \/ HasTimeindex(desired_action, t)
        /\ pc \in {"apply_action", "append_applied"} =>
              HasTimeindex(desired_action, t)

\* Non-real-time mode with repetitions allowed: after one applied action the
\* loop is blocked in step 1, whose action has not come, with status[1]
\* appended and free of repetitions.
C13_Witness ==
    /\ ~real_time_mode
    /\ max_action_repetitions > 0
    /\ pc = "wait_action"
    /\ t = 1
    /\ ~HasTimeindex(desired_action, t)
    /\ HasTimeindex(status, t)
    /\ ~has_shutdown_request

\* C14: applied_action[i] exists only with desired_action[i] and a NO_ERROR
\* status[i], and is the driver's result for desired_action[i]; the driver's
\* apply_action is called for index t only when desired_action[t] exists and
\* status[t] is appended with NO_ERROR, with t the number of actions applied so
\* far, so that the indices applied are 0, 1, 2, ... each once and none
\* skipped; t never moves except by one, together with the append of
\* applied_action[t].
C14_AppliedAction ==
    /\ [](\A i \in 0..(Len(applied_action) - 1) :
             /\ HasTimeindex(desired_action, i)
             /\ HasTimeindex(status, i)
             /\ At(status, i).error_status = NO_ERROR
             /\ At(applied_action, i) =
                   DriverApplyAction(At(desired_action, i)))
    /\ [](Len(applied_action) = t)
    /\ [][driver'.last_call = "apply_action"
             /\ driver.last_call # "apply_action" =>
             /\ pc = "apply_action"
             /\ HasTimeindex(desired_action, t)
             /\ Len(status) = t + 1
             /\ At(status, t).error_status = NO_ERROR
             /\ loc'.applied = DriverApplyAction(At(desired_action, t))
             /\ t' = t]_vars
    /\ [][applied_action' # applied_action =>
             /\ pc = "append_applied"
             /\ applied_action' = Append(applied_action, loc.applied)
             /\ loc.applied = DriverApplyAction(At(desired_action, t))
             /\ t' = t + 1]_vars
    /\ [][t' # t => applied_action' # applied_action]_vars

\* Two actions were applied, one after the other, each the driver's result
\* for the desired action of its own index, and the two differ.
C14_Witness ==
    /\ Len(applied_action) = 2
    /\ t = 2
    /\ At(applied_action, 0) = DriverApplyAction(At(desired_action, 0))
    /\ At(applied_action, 1) = DriverApplyAction(At(desired_action, 1))
    /\ At(desired_action, 0) # At(desired_action, 1)

\* The worker has just returned from get_latest_observation, get_error or
\* apply_action.
AfterLoopDriverCall ==
    pc \in {"append_observation", "append_status", "append_applied"}

\* C15 as stated: in every run, when the loop calls get_latest_observation,
\* get_error or apply_action, initialize() (which delegates to
\* driver.initialize()) has been called and has returned.
C15_InitializeFirst ==
    AfterLoopDriverCall => driver.initialized

\* The worker's step is a call of the driver: get_latest_observation,
\* get_error, apply_action or shutdown.
WorkerDriverCall ==
    /\ pc \in {"get_observation", "get_error", "apply_action",
                "driver_shutdown"}
    /\ pc' # pc

\* C16 as stated: no two calls of the driver overlap in time: while the host
\* thread is inside initialize() (driver.initialize() has begun and has not
\* returned), the worker thread calls no method of the driver.
C16_DriverExclusive ==
    [][host_pc = "initialize" => ~WorkerDriverCall]_vars

\* status[i] is that of a late step that repeated: one more repetition than
\* status[i-1], within what max_action_repetitions allowed, and no "Next
\* action" error.
RepeatedStatus(i) ==
    /\ i > 0
    /\ At(status, i).action_repetitions =
          At(status, i - 1).action_repetitions + 1
    /\ At(status, i).action_repetitions <= hist.max_repetitions
    /\ At(status, i).error_message # MSG_NEXT_ACTION

\* status[i] is that of a late step with the repetitions used up:
\* BACKEND_ERROR "Next action was not provided in time", the last status, the
\* loop left.
ExhaustedStatus(i) ==
    /\ At(status, i).error_status = BACKEND_ERROR
    /\ At(status, i).error_message = MSG_NEXT_ACTION
    /\ At(status, i).action_repetitions = 0
    /\ i = Len(status) - 1
    /\ pc \in AfterLoop

\* The same, with the driver's error polled in that step in place of the
\* backend's.
ExhaustedStatusOverridden(i) ==
    /\ At(status, i).error_status = DRIVER_ERROR
    /\ At(status, i).error_message = driver.error
    /\ driver.error # ""
    /\ At(status, i).action_repetitions = 0
    /\ i = Len(status) - 1
    /\ pc \in AfterLoop

\* The late-action branch of one step, statement by statement: with r the
\* action_repetitions of the newest status, r < max_action_repetitions goes on
\* to append one copy of the newest desired action and sets
\* status.action_repetitions = r + 1, leaving the error fields alone; else
\* nothing is appended and the status is set to BACKEND_ERROR "Next action
\* was not provided in time".
LateBranchSteps ==
    /\ [][pc = "read_repetitions" /\ pc' # pc =>
             LET r == NewestElement(status).action_repetitions
             IN  /\ real_time_mode
                 /\ t \in hist.late_steps
                 /\ Len(status) = t
                 /\ desired_action' = desired_action
                 /\ IF r < max_action_repetitions
                    THEN /\ pc' = "read_newest_action"
                         /\ loc'.action_repetitions = r
                         /\ loc'.status = loc.status
                    ELSE /\ pc' = "get_error"
                         /\ loc'.status = SetError(loc.status, BACKEND_ERROR,
                                                   MSG_NEXT_ACTION)]_vars
    /\ [][pc = "read_newest_action" /\ pc' # pc =>
             /\ loc'.repeated = NewestElement(desired_action)
             /\ pc' = "append_repetition"]_vars
    /\ [][BackendInsertions' # BackendInsertions =>
             /\ pc = "append_repetition"
             /\ pc' = "get_error"
             /\ t \in hist.late_steps
             /\ desired_action' = Append(desired_action, loc.repeated)
             /\ loc'.status.action_repetitions = loc.action_repetitions + 1
             /\ loc'.status.error_status = loc.status.error_status
             /\ loc'.status.error_message = loc.status.error_message]_vars
    /\ [](pc \in {"check_late", "read_repetitions", "read_newest_action",
                  "append_repetition"}
             => loc.status.action_repetitions = 0)
    /\ [](pc \in {"get_error", "append_status"} /\ t \notin hist.late_steps
             => loc.status.action_repetitions = 0)

\* C17 as stated: in real-time mode a step that finds desired_action late
\* either repeats (r < max_action_repetitions: one copy of the newest desired
\* action appended, status[t].action_repetitions = r + 1, no error from this
\* branch) or ends the loop with status[t] = BACKEND_ERROR "Next action was
\* not provided in time" and nothing appended; a step that finds its action
\* present has status[t].action_repetitions = 0.
C17_LateActionPolicy ==
    /\ LateBranchSteps
    /\ [](\A i \in 0..(Len(status) - 1) :
             IF i \in hist.late_steps
             THEN RepeatedStatus(i) \/ ExhaustedStatus(i)
             ELSE At(status, i).action_repetitions = 0)

\* C17 amended: as stated, except that status[t] of a late step with the
\* repetitions used up is DRIVER_ERROR with the driver's message when the
\* driver reports an error in the poll of that step.
C17_LateActionPolicyAmended ==
    /\ LateBranchSteps
    /\ [](\A i \in 0..(Len(status) - 1) :
             IF i \in hist.late_steps
             THEN \/ RepeatedStatus(i)
                  \/ ExhaustedStatus(i)
                  \/ ExhaustedStatusOverridden(i)
             ELSE At(status, i).action_repetitions = 0)

\* Step 0 had its action, step 1 was late and repeated it, step 2 was late
\* with the repetitions used up and ended the run.
C17_Witness ==
    /\ hist.late_steps = {1, 2}
    /\ Len(status) = 3
    /\ At(status, 0).action_repetitions = 0
    /\ RepeatedStatus(1)
    /\ ExhaustedStatus(2)
    /\ desired_action = << FrontendAction(1), FrontendAction(1) >>
    /\ pc = "done"

\* C18: when driver.get_error() is non-empty at the poll of step t, the
\* step's status becomes DRIVER_ERROR with the driver's message, whatever
\* error the step had set before (action limit, late action), keeping its
\* action_repetitions; that status is appended as status[t], the loop leaves
\* the for loop, and apply_action is not called for step t.
C18_DriverOverrides ==
    /\ [][pc = "get_error" /\ pc' # pc /\ driver.error # "" =>
             /\ loc'.status = SetError(loc.status, DRIVER_ERROR, driver.error)
             /\ pc' = "append_status"]_vars
    /\ [][pc = "get_error" /\ pc' # pc /\ driver.error = "" =>
             /\ loc'.status = loc.status
             /\ pc' = "append_status"]_vars
    /\ [][pc = "append_status" /\ pc' # pc =>
             /\ Len(status) = t
             /\ status' = Append(status, loc.status)
             /\ loc.status.error_status # NO_ERROR =>
                   pc' = "driver_shutdown"]_vars
    /\ [](\A i \in 0..(Len(status) - 1) :
             At(status, i).error_status = DRIVER_ERROR =>
                 /\ At(status, i).error_message = driver.error
                 /\ driver.error # ""
                 /\ i = Len(status) - 1
                 /\ Len(applied_action) = i
                 /\ t = i
                 /\ pc \in AfterLoop)

\* The step at the action limit, which had set BACKEND_ERROR "Maximum number
\* of actions reached.", ended the run with the driver's error as status[N].
C18_Witness ==
    /\ LimitStatusExists
    /\ At(status, max_number_of_actions).error_status = DRIVER_ERROR
    /\ At(status, max_number_of_actions).error_message = MSG_DRIVER
    /\ Len(applied_action) = max_number_of_actions
    /\ pc = "done"

\* Where the worker is when an observation is still to be appended in the
\* step in flight; likewise a status (of the step, or of the first-action
\* timeout); likewise an applied action, past the test of the request that
\* follows the wait.
BeforeObservationAppend == {"get_observation", "append_observation"}
BeforeStatusAppend ==
    BeforeObservationAppend \cup
    {"first_timeout_check", "first_timeout_status", "check_late",
     "read_repetitions", "read_newest_action", "append_repetition",
     "get_error", "append_status"}
BeforeAppliedAppend == {"apply_action", "append_applied"}

\* With a shutdown request set, series s is appended to only from the
\* positions before, and those positions are not entered: the request is
\* followed by at most one append to s.
AtMostOneMore(s, before) ==
    has_shutdown_request =>
        /\ s' # s =>
              /\ Len(s') = Len(s) + 1
              /\ pc \in before
              /\ pc' \notin before
        /\ pc \notin before => pc' \notin before

\* C19: from the moment a shutdown request (request_shutdown() or interrupt)
\* is set, the backend starts no new step: it appends at most one more
\* observation, at most one more status and at most one more applied action,
\* calls apply_action at most once more; and a request seen in the wait for
\* desired_action[t] makes the loop leave without applying action t, also
\* when that action has arrived.
C19_NoNewStep ==
    /\ [][AtMostOneMore(observation, BeforeObservationAppend)]_vars
    /\ [][AtMostOneMore(status, BeforeStatusAppend)]_vars
    /\ [][AtMostOneMore(applied_action, BeforeAppliedAppend)]_vars
    /\ [][has_shutdown_request /\ pc # "apply_action" =>
             pc' # "apply_action"]_vars
    /\ [][has_shutdown_request /\ hist.steps' # hist.steps => FALSE]_vars
    /\ [][has_shutdown_request /\ pc \in {"wait_action", "check_shutdown"}
             /\ pc' # pc =>
                pc' \in {"check_shutdown", "driver_shutdown"}]_vars
    /\ [][has_shutdown_request => has_shutdown_request']_vars

\* A request is set and the loop, back from the wait of step 1, is about to
\* test it; the action of step 1 has arrived and is not applied yet.
C19_Witness ==
    /\ has_shutdown_request
    /\ pc = "check_shutdown"
    /\ t = 1
    /\ HasTimeindex(desired_action, 1)
    /\ Len(status) = 2
    /\ Len(applied_action) = 1

\* desired_action[i] was inserted by the backend.
InsertedByBackend(i) == hist.inserted_by[i + 1] = "backend"

\* C20 as stated: under concurrent frontend appends, in every interleaving,
\* an entry the backend inserts lies at the index of the current step (never
\* ahead of it), status[i].action_repetitions > 0 exactly when
\* desired_action[i] was inserted by the backend, and then desired_action[i]
\* equals desired_action[i-1].
C20_RepetitionAtStep ==
    /\ \A i \in 0..(Len(desired_action) - 1) :
          InsertedByBackend(i) =>
              /\ i <= t
              /\ i > 0
              /\ At(desired_action, i) = At(desired_action, i - 1)
    /\ \A i \in 0..(Len(status) - 1) :
          HasTimeindex(desired_action, i) =>
              (At(status, i).action_repetitions > 0 <=> InsertedByBackend(i))

\* C21: the late-action branch never reads newest_element() of an empty
\* series: a step is entered only once desired_action[0] exists, a step
\* found late is a step t >= 1, and where the branch reads the newest status
\* and the newest desired action both series are non-empty (status holds
\* status[0..t-1]); the failure of newest_element() is never reached.
C21_NoEmptySeriesRead ==
    /\ pc # "empty_series_failure"
    /\ hist.steps > 0 => HasTimeindex(desired_action, 0)
    /\ \A i \in hist.late_steps : i >= 1
    /\ pc \in {"read_repetitions", "read_newest_action",
                "append_repetition"} =>
          /\ real_time_mode
          /\ t >= 1
          /\ t \in hist.late_steps
          /\ Len(status) = t
          /\ Len(desired_action) >= 1

\* In real-time mode step 1 found its action late and is about to read the
\* newest status.
C21_Witness ==
    /\ real_time_mode
    /\ pc = "read_repetitions"
    /\ t = 1
    /\ NewestTimeindex(desired_action) < t
    /\ Len(status) = 1

====
